---- MODULE Spec2Model ----
(***************************************************************************)
(* LandCare-AI backend: the background-task layer of the FastAPI routers   *)
(* (routes/forecasting.py, routes/models.py, routes/tasks.py) and the      *)
(* computation cache of models.py (class Database); the forecast engine    *)
(* (forecasting.py), the Open-Meteo client (weather_integration.py), the   *)
(* workers of app.py, GEEForecaster (ndvi_forecast_ml.py) and the routes   *)
(* of routes/historical.py.                                                *)
(*                                                                         *)
(* Python dicts are TLA+ records/functions: `k in d` is k \in DOMAIN d.    *)
(* A task id f"{prefix}_{int(time.time())}_{hash(str(geometry)) % 10000}"  *)
(* is the tuple <<prefix, seconds, bucket>>.                               *)
(***************************************************************************)
EXTENDS Integers, Sequences, FiniteSets, TLC

\* ------------------------------------------------------------------ bounds
MaxSubmits == 2
MaxTime == 1
MaxRows == 2

\* ------------------------------------------------------- program constants
HashMod == 10000
MaxPeriod == 24
HistoricalTTLDays == 30
ModelTTLDays == 7

\* --------------------------------------------------------- request inputs
\* Geometries of the requests (two different polygons); StrHash is
\* hash(str(geometry)) in the running process.
Geoms == {1, 2}

StrHash(g) == IF g = 1 THEN 10007 ELSE 12

\* request.periods as it arrives in the JSON body: a list of integers, or
\* something that is not one.
PeriodInputs == { [isIntList |-> TRUE,  xs |-> <<3, 6, 12>>],
                  [isIntList |-> TRUE,  xs |-> <<>>],
                  [isIntList |-> TRUE,  xs |-> <<0>>],
                  [isIntList |-> TRUE,  xs |-> <<25>>],
                  [isIntList |-> FALSE, xs |-> <<>>] }

\* str(e) of an exception raised inside a job
ExcMessages == {"EEException: computation timed out"}

NoTaskId == <<"none", 0, 0>>
NonexistentId == <<"nonexistent_task", 0, 0>>

\* no forecast call made yet
NoForecast == [made |-> FALSE]

\* GEEForecaster.__init__: every classifier, sample set and collection is None
NewForecaster ==
    [vi_collection |-> FALSE, vi_lagged |-> FALSE, meteo_collection |-> FALSE,
     topo_image |-> FALSE, soil_image |-> FALSE, combined_collection |-> FALSE,
     samples |-> FALSE, ndvi_classifier |-> FALSE, savi_classifier |-> FALSE,
     evi_classifier |-> FALSE, training_samples |-> FALSE, testing_samples |-> FALSE]

\* no method of the forecaster called yet
NoCall == [method |-> "none"]

\* the request threads that call the forecast functions
Threads == {"thread_1", "thread_2"}

\* a thread that is not inside a forecast call
NotCalling == [busy |-> FALSE]

\* no Open-Meteo call in progress
IdleFetch == [fn |-> "none"]

VARIABLES
    now,             \* time.time() / the loop clock, in whole seconds
    forecastStore,   \* routes/forecasting.py: background_tasks_store
    tasksStore,      \* routes/tasks.py: background_tasks_store
    modelsStore,     \* routes/models.py: background_tasks_store (global of that module)
    jobs,            \* jobs[i]: the background task added by the i-th accepted POST
    loop,            \* 0: the event loop is free; i: job i is running on it
    lastReply,       \* the response to the last HTTP request (POST submit or GET status)
    utcnow,          \* datetime.utcnow(), in whole days
    historicalRows,  \* table landcare_cached_historical_data, in insertion order
    modelRows,       \* table landcare_cached_models, in insertion order
    lastPut,         \* the arguments of the last save_cached_* call
    lastGet,         \* the arguments and the return value of the last get_cached_* call
    purge,           \* clear_expired_cache: 0 not running, 1 between its two deletes
    lastForecast,    \* the last forecast_ndvi / forecast_weather call and what it returned
    derived,         \* the (geometry, hash) pairs generate_geometry_hash has produced
    background_tasks, \* app.py: background_tasks
    fetch,           \* the Open-Meteo call in progress: its retry loop's locals
    fetched,         \* per app.py task: the get_historical_weather calls it made
    inflight,        \* per request thread: the forecast call between its lookup and its store
    forecaster,      \* a GEEForecaster: which of its attributes are not None
    lastCall         \* the last method called on the forecaster and what it did

taskVars == <<now, forecastStore, tasksStore, modelsStore, jobs, loop, lastReply>>

engineVars == <<lastForecast, derived>>

ioVars == <<background_tasks, fetch, fetched, inflight>>

mlVars == <<forecaster, lastCall>>

sideVars == <<ioVars, mlVars>>

cacheVars == <<utcnow, historicalRows, modelRows, lastPut, lastGet, purge,
               lastForecast, derived, sideVars>>

vars == <<now, forecastStore, tasksStore, modelsStore, jobs, loop, lastReply,
          utcnow, historicalRows, modelRows, lastPut, lastGet, purge,
          lastForecast, derived, background_tasks, fetch, fetched, inflight,
          forecaster, lastCall>>

\* d[k] = v on a dict
DictSet(d, k, v) == [x \in (DOMAIN d) \cup {k} |-> IF x = k THEN v ELSE d[x]]

EmptyDict == [x \in {} |-> 0]

\* an HTTPException raised by a submit handler (or the 422 of the schema)
Rejected(ep, code) == [endpoint |-> ep, code |-> code, status |-> "rejected", task_id |-> NoTaskId]

\* ------------------------------------------------------------ task ids
\* f"{prefix}_{int(time.time())}_{hash(str(geometry)) % 10000}"
TaskId(prefix, t, g) == <<prefix, t, StrHash(g) % HashMod>>

\* --------------------------------------------------- POST /api/forecast/vegetation
\* The checks a request's periods go through before a task id is made:
\* List[int] of the request schema, then the two checks of the handler.
\* 0 stands for "passed".
ValidatePeriods(p) ==
    IF ~p.isIntList THEN 422
    ELSE IF Len(p.xs) = 0 THEN 400
    ELSE IF \E i \in 1..Len(p.xs) : p.xs[i] > MaxPeriod THEN 400
    ELSE 0

forecast_vegetation(g, p, use_fallback) ==
    LET code == ValidatePeriods(p) IN
    IF code # 0
    THEN /\ lastReply' = Rejected("forecast_vegetation", code)
         /\ UNCHANGED jobs
    ELSE LET task_id == TaskId("veg_forecast", now, g) IN
         /\ jobs' = Append(jobs, [kind |-> "veg_forecast", task_id |-> task_id, geom |-> g,
                                  use_fallback |-> use_fallback, pc |-> "scheduled"])
         /\ lastReply' = [endpoint |-> "forecast_vegetation", code |-> 200,
                          status |-> "accepted", task_id |-> task_id,
                          periods |-> p.xs, fallback_enabled |-> use_fallback]

SubmitForecast ==
    /\ loop = 0
    /\ Len(jobs) < MaxSubmits
    /\ \E g \in Geoms, p \in PeriodInputs, fb \in BOOLEAN : forecast_vegetation(g, p, fb)
    /\ UNCHANGED <<now, forecastStore, tasksStore, modelsStore, loop>>
    /\ UNCHANGED cacheVars

\* --------------------------------------------------- POST /api/models/train
\* geometry 0 is the empty body ("No geometry provided"); settingsOk is
\* whether every key of model_settings is one of the three valid ones.
TrainGeoms == {0, 1}

train_model(g, settingsOk) ==
    IF g = 0 \/ ~settingsOk
    THEN /\ lastReply' = Rejected("train_model", 400)
         /\ UNCHANGED jobs
    ELSE LET task_id == TaskId("model_train", now, g) IN
         /\ jobs' = Append(jobs, [kind |-> "model_train", task_id |-> task_id, geom |-> g,
                                  pc |-> "scheduled"])
         /\ lastReply' = [endpoint |-> "train_model", code |-> 200,
                          status |-> "accepted", task_id |-> task_id]

SubmitTraining ==
    /\ loop = 0
    /\ Len(jobs) < MaxSubmits
    /\ \E g \in TrainGeoms, ok \in BOOLEAN : train_model(g, ok)
    /\ UNCHANGED <<now, forecastStore, tasksStore, modelsStore, loop>>
    /\ UNCHANGED cacheVars

\* ------------------------------------------ run_ml_forecast_background
\* The coroutine has no await: once started it keeps the event loop until it
\* returns.  Its pc names the call it is about to make.
SetPc(i, pc) == [jobs EXCEPT ![i].pc = pc]

ProcessingRecord == [status |-> "processing", start_time |-> now]

\* the except branch storing only the message, as the training worker does
FailedRecordWithoutStatus(msg) == [error |-> msg]

FailedRecord(msg) == [status |-> "failed", error |-> msg, end_time |-> now]

\* result: the forecaster's forecasts plus the two keys added by the worker
CompletedRecord ==
    [status |-> "completed",
     result |-> [forecasts |-> "forecast_result", method_used |-> "ml", fallback_used |-> FALSE],
     end_time |-> now]

\* a write background_tasks_store[task_id] = rec that ends the coroutine
ForecastJobEnds(i, rec) ==
    /\ forecastStore' = DictSet(forecastStore, jobs[i].task_id, rec)
    /\ jobs' = SetPc(i, "done")
    /\ loop' = 0

ForecastJobStart(i) ==
    /\ loop = 0
    /\ jobs[i].kind = "veg_forecast"
    /\ jobs[i].pc = "scheduled"
    /\ forecastStore' = DictSet(forecastStore, jobs[i].task_id, ProcessingRecord)
    /\ jobs' = SetPc(i, "initialize_gee")
    /\ loop' = i
    /\ UNCHANGED <<now, tasksStore, modelsStore, lastReply>>
    /\ UNCHANGED cacheVars

ForecastJobInitGee(i) ==
    /\ loop = i
    /\ jobs[i].kind = "veg_forecast"
    /\ jobs[i].pc = "initialize_gee"
    /\ \/ /\ jobs' = SetPc(i, "train_models")
          /\ UNCHANGED <<forecastStore, loop>>
       \/ ForecastJobEnds(i, FailedRecord("Google Earth Engine initialization failed"))
    /\ UNCHANGED <<now, tasksStore, modelsStore, lastReply>>
    /\ UNCHANGED cacheVars

ForecastJobTrain(i) ==
    /\ loop = i
    /\ jobs[i].kind = "veg_forecast"
    /\ jobs[i].pc = "train_models"
    /\ \/ /\ jobs' = SetPc(i, "forecast")
          /\ UNCHANGED <<forecastStore, loop>>
       \/ ForecastJobEnds(i, FailedRecord("Model training failed: No training data"))
    /\ UNCHANGED <<now, tasksStore, modelsStore, lastReply>>
    /\ UNCHANGED cacheVars

ForecastJobForecast(i) ==
    /\ loop = i
    /\ jobs[i].kind = "veg_forecast"
    /\ jobs[i].pc = "forecast"
    /\ \/ /\ jobs' = SetPc(i, "store_results")
          /\ UNCHANGED <<forecastStore, loop>>
       \/ ForecastJobEnds(i, FailedRecord("Forecasting failed: Models not trained"))
    /\ UNCHANGED <<now, tasksStore, modelsStore, lastReply>>
    /\ UNCHANGED cacheVars

\* db.save_forecast swallows its own errors; then the completed record
ForecastJobStore(i) ==
    /\ loop = i
    /\ jobs[i].kind = "veg_forecast"
    /\ jobs[i].pc = "store_results"
    /\ ForecastJobEnds(i, CompletedRecord)
    /\ UNCHANGED <<now, tasksStore, modelsStore, lastReply>>
    /\ UNCHANGED cacheVars

\* except Exception as e: any call between the first line and the last
\* write may raise
ForecastJobRaises(i) ==
    /\ loop = i
    /\ jobs[i].kind = "veg_forecast"
    /\ jobs[i].pc \in {"initialize_gee", "train_models", "forecast"}
    /\ \E msg \in ExcMessages : ForecastJobEnds(i, FailedRecord(msg))
    /\ UNCHANGED <<now, tasksStore, modelsStore, lastReply>>
    /\ UNCHANGED cacheVars

\* ------------------------------------------ run_model_training_background
\* Database.generate_geometry_hash: md5 of the canonical JSON of the geometry
GeometryHash(g) == <<"md5", g>>

\* the two result dicts of the coroutine (their created_at / model_settings
\* entries, which no handler reads, are left out)
TrainingErrorResult(msg) == [error |-> msg]

TrainingResult(g) ==
    [model_key |-> <<"gee_forecaster", GeometryHash(g)>>,
     training_result |-> "success",
     geometry_hash |-> GeometryHash(g)]

\* the last statement of the coroutine, reached on every path:
\* background_tasks_store[task_id] = result, on the global of routes/models.py
TrainingJobEnds(i, result) ==
    /\ modelsStore' = DictSet(modelsStore, jobs[i].task_id, result)
    /\ jobs' = SetPc(i, "done")
    /\ loop' = 0

TrainingJobStart(i) ==
    /\ loop = 0
    /\ jobs[i].kind = "model_train"
    /\ jobs[i].pc = "scheduled"
    /\ jobs' = SetPc(i, "initialize_gee")
    /\ loop' = i
    /\ UNCHANGED <<now, forecastStore, tasksStore, modelsStore, lastReply>>
    /\ UNCHANGED cacheVars

TrainingJobInitGee(i) ==
    /\ loop = i
    /\ jobs[i].kind = "model_train"
    /\ jobs[i].pc = "initialize_gee"
    /\ \/ /\ jobs' = SetPc(i, "train_models")
          /\ UNCHANGED <<modelsStore, loop>>
       \/ TrainingJobEnds(i, TrainingErrorResult("Google Earth Engine initialization failed"))
    /\ UNCHANGED <<now, forecastStore, tasksStore, lastReply>>
    /\ UNCHANGED cacheVars

TrainingJobTrain(i) ==
    /\ loop = i
    /\ jobs[i].kind = "model_train"
    /\ jobs[i].pc = "train_models"
    /\ \/ /\ jobs' = SetPc(i, "save_models")
          /\ UNCHANGED <<modelsStore, loop>>
       \/ TrainingJobEnds(i, TrainingErrorResult("Model training failed: No training data"))
    /\ UNCHANGED <<now, forecastStore, tasksStore, lastReply>>
    /\ UNCHANGED cacheVars

TrainingJobSave(i) ==
    /\ loop = i
    /\ jobs[i].kind = "model_train"
    /\ jobs[i].pc = "save_models"
    /\ TrainingJobEnds(i, TrainingResult(jobs[i].geom))
    /\ UNCHANGED <<now, forecastStore, tasksStore, lastReply>>
    /\ UNCHANGED cacheVars

TrainingJobRaises(i) ==
    /\ loop = i
    /\ jobs[i].kind = "model_train"
    /\ jobs[i].pc \in {"initialize_gee", "train_models", "save_models"}
    /\ \E msg \in ExcMessages : TrainingJobEnds(i, TrainingErrorResult(msg))
    /\ UNCHANGED <<now, forecastStore, tasksStore, lastReply>>
    /\ UNCHANGED cacheVars

\* ------------------------------------------------------- status endpoints
\* The body of a status response, built as the handlers build it.  The
\* subtraction task['end_time'] - task['start_time'] is made whenever
\* 'end_time' is a key; without 'start_time' it raises KeyError.
DurationRaises(task) == "end_time" \in DOMAIN task /\ "start_time" \notin DOMAIN task

\* which of start_time, end_time, duration the response carries, and the
\* duration's value
Times(task) ==
    [has_start |-> "start_time" \in DOMAIN task,
     has_end |-> "end_time" \in DOMAIN task,
     has_duration |-> "end_time" \in DOMAIN task /\ "start_time" \in DOMAIN task,
     duration |-> IF "end_time" \in DOMAIN task /\ "start_time" \in DOMAIN task
                  THEN task.end_time - task.start_time ELSE 0]

\* an unknown id answered as a task that has not started yet
NotFoundAsPending(ep, task_id) ==
    [endpoint |-> ep, task_id |-> task_id, code |-> 200, status |-> "pending",
     has_result |-> FALSE, has_error |-> FALSE, detail |-> ""]

NotFound(ep, task_id) ==
    [endpoint |-> ep, task_id |-> task_id, code |-> 404, status |-> "",
     has_result |-> FALSE, has_error |-> FALSE, detail |-> "Task not found"]

Raised(ep, task_id, what) ==
    [endpoint |-> ep, task_id |-> task_id, code |-> 500, status |-> "",
     has_result |-> FALSE, has_error |-> FALSE, detail |-> what]

\* GET /api/forecast/status/{task_id}: task['status'], task['result'],
\* task['error'] are plain subscripts
get_forecast_status(store, task_id) ==
    IF task_id \notin DOMAIN store THEN NotFound("forecast_status", task_id)
    ELSE LET task == store[task_id] IN
         IF "status" \notin DOMAIN task
             THEN Raised("forecast_status", task_id, "KeyError: 'status'")
         ELSE IF task.status = "completed" /\ "result" \notin DOMAIN task
             THEN Raised("forecast_status", task_id, "KeyError: 'result'")
         ELSE IF task.status = "failed" /\ "error" \notin DOMAIN task
             THEN Raised("forecast_status", task_id, "KeyError: 'error'")
         ELSE IF DurationRaises(task)
             THEN Raised("forecast_status", task_id, "KeyError: 'start_time'")
         ELSE [endpoint |-> "forecast_status", task_id |-> task_id, code |-> 200,
               status |-> task.status,
               has_result |-> task.status = "completed",
               has_error |-> task.status = "failed",
               detail |-> IF task.status = "completed" THEN task.result
                          ELSE IF task.status = "failed" THEN task.error ELSE "",
               times |-> Times(task)]

\* GET /task/{task_id}: task.get('status', 'unknown'), task.get('result'),
\* task.get('error')
get_task_status(store, task_id) ==
    IF task_id \notin DOMAIN store THEN NotFound("task", task_id)
    ELSE LET task == store[task_id]
             status == IF "status" \in DOMAIN task THEN task.status ELSE "unknown" IN
         IF DurationRaises(task)
             THEN Raised("task", task_id, "KeyError: 'start_time'")
         ELSE [endpoint |-> "task", task_id |-> task_id, code |-> 200,
               status |-> status,
               has_result |-> status = "completed",
               has_error |-> status = "failed",
               detail |-> IF status = "completed" /\ "result" \in DOMAIN task THEN task.result
                          ELSE IF status = "failed" /\ "error" \in DOMAIN task THEN task.error
                          ELSE "",
               times |-> Times(task)]

IssuedIds == {jobs[i].task_id : i \in 1..Len(jobs)}

\* the ids a client asks about: the ones it was given, one no submit ever
\* returns, and a well-formed one that may or may not have been returned
PollIds == IssuedIds \cup {NonexistentId, TaskId("veg_forecast", 0, 1)}

PollForecastStatus ==
    /\ loop = 0
    /\ \E task_id \in PollIds : lastReply' = get_forecast_status(forecastStore, task_id)
    /\ UNCHANGED <<now, forecastStore, tasksStore, modelsStore, jobs, loop>>
    /\ UNCHANGED cacheVars

PollTaskStatus ==
    /\ loop = 0
    /\ \E task_id \in PollIds : lastReply' = get_task_status(tasksStore, task_id)
    /\ UNCHANGED <<now, forecastStore, tasksStore, modelsStore, jobs, loop>>
    /\ UNCHANGED cacheVars

\* ----------------------------------------------------------------- clock
Tick ==
    /\ now < MaxTime
    /\ now' = now + 1
    /\ UNCHANGED <<forecastStore, tasksStore, modelsStore, jobs, loop, lastReply>>
    /\ UNCHANGED cacheVars

\* ------------------------------------------------------- specification
InitTaskVars ==
    /\ now = 0
    /\ forecastStore = EmptyDict
    /\ tasksStore = EmptyDict
    /\ modelsStore = EmptyDict
    /\ jobs = <<>>
    /\ loop = 0
    /\ lastReply = [endpoint |-> "none", code |-> 0, status |-> "", task_id |-> NoTaskId]

InitCacheVars ==
    /\ utcnow = 0
    /\ historicalRows = <<>>
    /\ modelRows = <<>>
    /\ lastPut = [table |-> "none"]
    /\ lastGet = [table |-> "none"]
    /\ purge = 0
    /\ lastForecast = NoForecast
    /\ derived = {}

InitSideVars ==
    /\ background_tasks = EmptyDict
    /\ fetch = IdleFetch
    /\ fetched = EmptyDict
    /\ inflight = [t \in Threads |-> NotCalling]
    /\ forecaster = NewForecaster
    /\ lastCall = NoCall

Init == InitTaskVars /\ InitCacheVars /\ InitSideVars

JobStep(i) ==
    \/ ForecastJobStart(i)
    \/ ForecastJobInitGee(i)
    \/ ForecastJobTrain(i)
    \/ ForecastJobForecast(i)
    \/ ForecastJobStore(i)
    \/ ForecastJobRaises(i)
    \/ TrainingJobStart(i)
    \/ TrainingJobInitGee(i)
    \/ TrainingJobTrain(i)
    \/ TrainingJobSave(i)
    \/ TrainingJobRaises(i)

Next ==
    \/ SubmitForecast
    \/ SubmitTraining
    \/ \E i \in 1..Len(jobs) : JobStep(i)
    \/ PollForecastStatus
    \/ PollTaskStatus
    \/ Tick

Spec == Init /\ [][Next]_vars

\* ====================================================== computation cache
\* models.py, class Database: two tables of the store, written by insert and
\* read by select ... order ... limit 1.

\* the arguments the routes pass: (data_type, geometry_hash, lat, lon, years);
\* a coordinate is <<>> for None and <<x>> for the number x
HistoricalKeys ==
    { [data_type |-> "ndvi", geometry_hash |-> "g1", lat |-> <<>>, lon |-> <<>>, years |-> 2],
      [data_type |-> "weather", geometry_hash |-> "g1", lat |-> <<1>>, lon |-> <<1>>, years |-> 1] }

\* Python values handed to the cache: <<type, items>>
HistoricalPayloads == { <<"list", <<5, 6>>>>, <<"list", <<5, 7>>>> }

ModelKeys == {"ndvi_arima_g1_d1", "ndvi_sarima_g1_d1"}

Models == {"fit1"}

\* model_info carries 'order': (1,1,1), a tuple
ModelInfos == { <<"tuple", <<1, 1, 1>>>> }

\* json.dumps writes lists and tuples alike as a JSON array; json.loads
\* reads an array as a list
JsonDumps(v) == <<"json", v[2]>>

JsonLoads(text) == <<"list", text[2]>>

\* pickle.dumps / base64.b64encode(...).decode and their inverses
PickleDumps(m) == <<"pickle", m>>

PickleLoads(b) == b[2]

B64Encode(b) == <<"b64", b>>

B64Decode(t) == t[2]

\* The query builder's order() takes the keyword desc, as the calls of
\* get_user_analyses, get_historical_data and get_forecasts pass it; any
\* other keyword is a TypeError at the call.
OrderKeywords == {"desc"}

OrderRaises(keyword) == keyword \notin OrderKeywords

None == [found |-> FALSE]

\* .order('created_at', ...).limit(1) over the rows the filters keep: the
\* newest one, 0 when there is none.  Rows are in insertion order and
\* created_at never decreases along it.
Newest(rows, Keep(_)) ==
    LET idx == {i \in 1..Len(rows) : Keep(rows[i])} IN
    IF idx = {} THEN 0 ELSE CHOOSE i \in idx : \A j \in idx : j <= i

get_cached_historical_data(data_type, geometry_hash, lat, lon, years) ==
    LET expiration_time == utcnow - HistoricalTTLDays
        Keep(r) == /\ r.data_type = data_type
                   /\ r.geometry_hash = geometry_hash
                   /\ r.years = years
                   /\ r.created_at > expiration_time
                   /\ (lat # <<>> /\ lon # <<>>) => (r.latitude = lat /\ r.longitude = lon)
        i == Newest(historicalRows, Keep)
    IN  IF OrderRaises("descending") THEN None      \* except Exception: return None
        ELSE IF i = 0 THEN None
        ELSE [found |-> TRUE,
              data |-> JsonLoads(historicalRows[i].data),
              created_at |-> historicalRows[i].created_at]

save_cached_historical_data(data_type, geometry_hash, data, lat, lon, years) ==
    historicalRows' = Append(historicalRows,
        [data_type |-> data_type, geometry_hash |-> geometry_hash,
         latitude |-> lat, longitude |-> lon, years |-> years,
         data |-> JsonDumps(data), created_at |-> utcnow])

\* a lookup that hands back the row it could not decode instead of None
get_cached_arima_model_undecoded(model_key) ==
    [found |-> TRUE, model |-> [model_class |-> "none", trained_on |-> <<>>],
     model_info |-> <<"json", <<>>>>, created_at |-> utcnow]

get_cached_arima_model(model_key) ==
    LET expiration_time == utcnow - ModelTTLDays
        Keep(r) == r.model_key = model_key /\ r.created_at > expiration_time
        i == Newest(modelRows, Keep)
    IN  IF OrderRaises("descending") THEN None      \* except Exception: return None
        ELSE IF i = 0 THEN None
        ELSE [found |-> TRUE,
              model |-> PickleLoads(B64Decode(modelRows[i].model_data)),
              model_info |-> modelRows[i].model_info,
              created_at |-> modelRows[i].created_at]

save_cached_arima_model(model_key, model, model_info) ==
    modelRows' = Append(modelRows,
        [model_key |-> model_key, model_type |-> "arima",
         model_data |-> B64Encode(PickleDumps(model)),
         model_info |-> JsonDumps(model_info), created_at |-> utcnow])

RowCount == Len(historicalRows) + Len(modelRows)

SaveHistorical ==
    /\ RowCount < MaxRows
    /\ \E k \in HistoricalKeys, data \in HistoricalPayloads :
          /\ save_cached_historical_data(k.data_type, k.geometry_hash, data, k.lat, k.lon, k.years)
          /\ lastPut' = [table |-> "historical", key |-> k, payload |-> data, at |-> utcnow]
    /\ UNCHANGED <<utcnow, modelRows, lastGet>>
    /\ UNCHANGED taskVars
    /\ UNCHANGED <<purge, lastForecast, derived>>
    /\ UNCHANGED sideVars

GetHistorical ==
    /\ \E k \in HistoricalKeys :
          lastGet' = [table |-> "historical", key |-> k,
                      result |-> get_cached_historical_data(k.data_type, k.geometry_hash,
                                                            k.lat, k.lon, k.years)]
    /\ UNCHANGED <<utcnow, historicalRows, modelRows, lastPut>>
    /\ UNCHANGED taskVars
    /\ UNCHANGED <<purge, lastForecast, derived>>
    /\ UNCHANGED sideVars

SaveModel ==
    /\ RowCount < MaxRows
    /\ \E k \in ModelKeys, m \in Models, info \in ModelInfos :
          /\ save_cached_arima_model(k, m, info)
          /\ lastPut' = [table |-> "model", key |-> k, payload |-> <<m, info>>, at |-> utcnow]
    /\ UNCHANGED <<utcnow, historicalRows, lastGet>>
    /\ UNCHANGED taskVars
    /\ UNCHANGED <<purge, lastForecast, derived>>
    /\ UNCHANGED sideVars

GetModel ==
    /\ \E k \in ModelKeys :
          lastGet' = [table |-> "model", key |-> k,
                      result |-> get_cached_arima_model(k)]
    /\ UNCHANGED <<utcnow, historicalRows, modelRows, lastPut>>
    /\ UNCHANGED taskVars
    /\ UNCHANGED <<purge, lastForecast, derived>>
    /\ UNCHANGED sideVars

\* clear_expired_cache(days=30): two deletes, each one statement of the
\* store, each with its own reading of the clock; other requests of the
\* store can come in between them
\* a delete that also takes the rows of the day after the cutoff
RemainingFromCutoff(rows, cutoff) == SelectSeq(rows, LAMBDA r : ~(r.created_at <= cutoff + 1))

Remaining(rows, cutoff) == SelectSeq(rows, LAMBDA r : ~(r.created_at < cutoff))

clear_expired_cache(days) ==
    \/ /\ purge = 0
       /\ historicalRows' = Remaining(historicalRows, utcnow - days)
       /\ purge' = 1
       /\ UNCHANGED modelRows
    \/ /\ purge = 1
       /\ modelRows' = Remaining(modelRows, utcnow - ModelTTLDays)
       /\ purge' = 0
       /\ UNCHANGED historicalRows

\* routes/utility.py: POST /cache/clear calls it with the default days
ClearCache ==
    /\ clear_expired_cache(HistoricalTTLDays)
    /\ UNCHANGED <<utcnow, lastPut, lastGet>>
    /\ UNCHANGED taskVars
    /\ UNCHANGED engineVars
    /\ UNCHANGED sideVars

\* the days on which calls are made: the first day, and the days just
\* before, at and just after each time-to-live after it
Days == {0, ModelTTLDays - 1, ModelTTLDays, ModelTTLDays + 1,
         HistoricalTTLDays - 1, HistoricalTTLDays, HistoricalTTLDays + 1}

AdvanceClock ==
    /\ \E d \in Days : d > utcnow /\ utcnow' = d
    /\ UNCHANGED <<historicalRows, modelRows, lastPut, lastGet>>
    /\ UNCHANGED taskVars
    /\ UNCHANGED <<purge, lastForecast, derived>>
    /\ UNCHANGED sideVars

NextCache ==
    \/ SaveHistorical
    \/ GetHistorical
    \/ SaveModel
    \/ GetModel
    \/ ClearCache
    \/ AdvanceClock

SpecCache == Init /\ [][NextCache]_vars

\* ======================================================= forecast engine
\* forecasting.py: forecast_ndvi and forecast_weather.

\* A calendar date 'YYYY-MM-DD' is [ym, day]: ym counts months from January
\* of a year that is not a leap year (ym % 12 = 0 is January), day is the
\* day of the month.  pd.to_datetime and strftime('%Y-%m-%d') convert
\* between the string and these fields.
DaysInMonth(ym) ==
    LET m == ym % 12 IN
    IF m = 1 THEN 28 ELSE IF m \in {3, 5, 8, 10} THEN 30 ELSE 31

Date(ym, day) == [ym |-> ym, day |-> day]

\* date + pd.DateOffset(months=1): the same day of the next month, the last
\* day of that month when it has no such day
DateOffsetMonths1(d) ==
    Date(d.ym + 1, IF d.day > DaysInMonth(d.ym + 1) THEN DaysInMonth(d.ym + 1) ELSE d.day)

\* pd.date_range(start=start, periods=periods, freq='M'): freq 'M' is the
\* month-END frequency; the range holds the first `periods` month ends that
\* are not before start.  A negative periods is a ValueError.
\* a range that holds one month end more than asked for
date_range_inclusive(start, periods) ==
    [raises |-> periods < 0,
     dates |-> [k \in 1..(periods + 1) |-> Date(start.ym + k - 1, DaysInMonth(start.ym + k - 1))]]

date_range(start, periods) ==
    IF periods < 0 THEN [raises |-> TRUE, dates |-> <<>>]
    ELSE [raises |-> FALSE,
          dates |-> [k \in 1..periods |-> Date(start.ym + k - 1, DaysInMonth(start.ym + k - 1))]]

\* an entry of a 'values' list: a number, None, a NaN (float nan or the
\* string 'nan'), or a text that is no number
Num(n) == [t |-> "num", n |-> n]

NoneValue == [t |-> "None", n |-> 0]

NaN == [t |-> "nan", n |-> 0]

Text == [t |-> "text", n |-> 0]

Entry(ym, day, value) == [date |-> Date(ym, day), value |-> value]

\* historical series handed to the forecast functions
SeriesInputs ==
    { <<Entry(0, 1, Num(5)), Entry(1, 1, Num(6)), Entry(2, 1, NoneValue)>>,
      <<Entry(0, 1, Num(5)), Entry(1, 1, NoneValue), Entry(2, 1, Num(6))>>,
      <<Entry(0, 15, Num(5)), Entry(1, 15, Num(7)), Entry(2, 15, Text)>>,
      <<Entry(0, 1, NoneValue), Entry(1, 1, NaN), Entry(2, 1, Text)>>,
      <<Entry(0, 1, NaN), Entry(1, 1, Num(5))>> }

PeriodsInputs == {-1, 0, 1, 2}

\* geometry_hash / location_key: None or a key
CacheKeyInputs == {"", "g1"}

\* line 20: [(d, v) for ... if v is not None and str(v).lower() != 'nan']
valid_data(series) ==
    SelectSeq(series, LAMBDA e : e.value.t # "None" /\ e.value.t # "nan")

\* a conversion that keeps every entry
to_numeric_keep(entries) == entries

\* line 30: pd.to_numeric(values, errors='coerce').dropna(): what is no
\* number becomes NaN and is dropped
to_numeric(entries) == SelectSeq(entries, LAMBDA e : e.value.t = "num")

ToList(entries) == [i \in 1..Len(entries) |-> entries[i].value.n]

\* hashlib.md5(text.encode()).hexdigest(): a digest that tells apart the
\* texts it is given here
Md5(text) == <<"md5", text>>

\* a digest of the length of the list only
DataHashOfLength(values) == Md5(<<"str", Len(values)>>)

\* line 37: md5 of str(values.values.tolist())
DataHash(values) == Md5(<<"str", values>>)

\* line 39, f"ndvi_{model_type}_{geometry_hash}_{data_hash}": the parts of
\* the string, which its fixed prefix, the fixed spellings of model_type and
\* the fixed length of the digest let a reader take apart again
NdviModelKey(model_type, geometry_hash, data_hash) ==
    <<"ndvi", model_type, geometry_hash, data_hash>>

\* line 132, f"weather_{variable}_{model_type}_{location_key}_{data_hash}"
WeatherModelKey(variable, model_type, location_key, data_hash) ==
    <<"weather", variable, model_type, location_key, data_hash>>

\* ARIMA(values, order=(1,1,1)).fit() / SARIMAX(...).fit(disp=False): the
\* fitted parameters are a function of the values and of the model class;
\* with a single observation the differenced series is empty and fit raises
FitRaises(values) == Len(values) < 2

Fit(values, use_sarima) ==
    [model_class |-> IF use_sarima THEN "SARIMAX" ELSE "ARIMA", trained_on |-> values]

FitErrorMessage == "fit: too few observations"

\* model_fit.get_forecast(steps=periods): predicts observations nobs ..
\* nobs + steps - 1 and raises ValueError when that range is empty
PredictionErrorMessage == "Prediction must have end after start."

get_forecast(model_fit, steps) ==
    IF steps <= 0 THEN [raises |-> TRUE]
    ELSE [raises |-> FALSE,
          predicted_mean |-> [k \in 1..steps |-> [mean_of |-> model_fit, step |-> k]],
          lower |-> [k \in 1..steps |-> [lower_of |-> model_fit, step |-> k]],
          upper |-> [k \in 1..steps |-> [upper_of |-> model_fit, step |-> k]]]

NoValidDataMessage(what) ==
    IF what = "NDVI" THEN "No valid historical NDVI data available for forecasting"
    ELSE IF what = "temperature"
         THEN "No valid historical temperature data available for forecasting"
         ELSE "No valid historical rainfall data available for forecasting"

\* what a call did besides returning: whether it looked the model up,
\* fitted one, and called save_cached_arima_model (with which arguments)
Outcome(result, looked_up, fitted, saves, model_key, model_fit, model_info) ==
    [result |-> result, looked_up |-> looked_up, fitted |-> fitted, saves |-> saves,
     model_key |-> model_key, model_fit |-> model_fit, model_info |-> model_info]

ErrorOutcome(message, looked_up, fitted, saves, model_key, model_fit, model_info) ==
    Outcome([error |-> message], looked_up, fitted, saves, model_key, model_fit, model_info)

NoKey == <<>>

NoModel == [model_class |-> "none", trained_on |-> <<>>]

NoInfo == <<"dict", [model_type |-> "none"]>>

\* lines 58-72 / 151-167: the model_info dict of a fresh fit
ModelInfo(use_sarima, variable) ==
    <<"dict", [model_type |-> IF use_sarima THEN "SARIMA" ELSE "ARIMA",
               order |-> <<1, 1, 1>>,
               seasonal_order |-> IF use_sarima THEN <<1, 1, 1, 12>> ELSE <<>>,
               aic |-> "aic",
               variable |-> variable]>>

\* lines 34-94 and 127-189, the same in both functions: key, lookup, fit or
\* reuse, store, forecast, dates.  `extra` holds the fields forecast_weather
\* adds to its result.
ForecastWith(entries, values, model_key, use_sarima, periods, info_variable, extra) ==
    LET keyed == model_key # NoKey
        cached_model == IF keyed THEN get_cached_arima_model(model_key) ELSE None
        hit == cached_model.found
        must_fit == ~hit
        model_fit == IF hit THEN cached_model.model ELSE Fit(values, use_sarima)
        model_info == IF hit THEN cached_model.model_info ELSE ModelInfo(use_sarima, info_variable)
        saves == must_fit /\ keyed
        forecast_result == get_forecast(model_fit, periods)
        forecast_dates == date_range(DateOffsetMonths1(entries[Len(entries)].date), periods)
    IN  IF must_fit /\ FitRaises(values)
        THEN ErrorOutcome(FitErrorMessage, keyed, FALSE, FALSE, model_key, NoModel, NoInfo)
        ELSE IF forecast_result.raises
        THEN ErrorOutcome(PredictionErrorMessage, keyed, must_fit, saves,
                          model_key, model_fit, model_info)
        ELSE IF forecast_dates.raises
        THEN ErrorOutcome("Number of periods must be non-negative", keyed, must_fit, saves,
                          model_key, model_fit, model_info)
        ELSE Outcome([forecast_dates |-> forecast_dates.dates,
                      forecast_values |-> forecast_result.predicted_mean,
                      confidence_intervals |-> [lower |-> forecast_result.lower,
                                                upper |-> forecast_result.upper],
                      model_info |-> model_info,
                      cached |-> hit,
                      extra |-> extra],
                     keyed, must_fit, saves, model_key, model_fit, model_info)

forecast_ndvi(historical_ndvi, periods, geometry_hash, use_sarima) ==
    LET entries == valid_data(historical_ndvi)
        values == ToList(to_numeric(entries))
        model_type == IF use_sarima THEN "sarima" ELSE "arima"
        model_key == IF geometry_hash # ""
                     THEN NdviModelKey(model_type, geometry_hash, DataHash(values))
                     ELSE NoKey
    IN  IF Len(entries) = 0 \/ Len(values) = 0
        THEN ErrorOutcome(NoValidDataMessage("NDVI"), FALSE, FALSE, FALSE, NoKey, NoModel, NoInfo)
        ELSE ForecastWith(entries, values, model_key, use_sarima, periods, "", "")

\* historical_weather holds the same list under 'temperature' and 'rainfall'
forecast_weather(historical_weather, variable, periods, location_key, use_sarima) ==
    LET name == IF variable = "precipitation" THEN "rainfall" ELSE variable
        entries == valid_data(historical_weather)
        values == ToList(to_numeric(entries))
        model_type == IF use_sarima THEN "sarima" ELSE "arima"
        model_key == IF location_key # ""
                     THEN WeatherModelKey(name, model_type, location_key, DataHash(values))
                     ELSE NoKey
    IN  IF Len(entries) = 0 \/ Len(values) = 0
        THEN ErrorOutcome(NoValidDataMessage(name), FALSE, FALSE, FALSE, NoKey, NoModel, NoInfo)
        ELSE ForecastWith(entries, values, model_key, use_sarima, periods, name, name)

NdviCalls ==
    [fn : {"forecast_ndvi"}, variable : {""}, series : SeriesInputs,
     periods : PeriodsInputs, cache_key : CacheKeyInputs, use_sarima : BOOLEAN]

WeatherCalls ==
    [fn : {"forecast_weather"}, variable : {"temperature", "rainfall", "precipitation"},
     series : {s \in SeriesInputs : \A i \in 1..Len(s) : s[i].date.day = 15},
     periods : {2}, cache_key : {"g1"}, use_sarima : BOOLEAN]

\* one call: what it returns, and the row save_cached_arima_model inserts
\* unless the insert fails (the error is printed and swallowed, line 356)
Called(c, out, store_fails) ==
    /\ store_fails => out.saves
    /\ (out.saves /\ ~store_fails) => RowCount < MaxRows
    /\ IF out.saves /\ ~store_fails
       THEN save_cached_arima_model(out.model_key, out.model_fit, out.model_info)
       ELSE UNCHANGED modelRows
    /\ lastForecast' = [made |-> TRUE, call |-> c, result |-> out.result,
                        looked_up |-> out.looked_up, fitted |-> out.fitted,
                        stored |-> out.saves /\ ~store_fails,
                        store_failed |-> store_fails, model_key |-> out.model_key]
    /\ UNCHANGED <<utcnow, historicalRows, lastPut, lastGet, purge, derived>>
    /\ UNCHANGED <<background_tasks, fetch, fetched>>
    /\ UNCHANGED mlVars
    /\ UNCHANGED taskVars

ForecastNdvi ==
    /\ \E c \in NdviCalls, store_fails \in BOOLEAN :
           Called(c, forecast_ndvi(c.series, c.periods, c.cache_key, c.use_sarima), store_fails)
    /\ UNCHANGED inflight

ForecastWeather ==
    /\ \E c \in WeatherCalls, store_fails \in BOOLEAN :
           Called(c, forecast_weather(c.series, c.variable, c.periods, c.cache_key, c.use_sarima),
                  store_fails)
    /\ UNCHANGED inflight

\* the calls are made on one day: what the clock does to the model cache is
\* the subject of SpecCache
NextForecast ==
    \/ ForecastNdvi
    \/ ForecastWeather

SpecForecast == Init /\ [][NextForecast]_vars

\* ======================================================= cache key deriver
\* models.py: Database.generate_geometry_hash.

\* A geometry dict is the sequence of its (key, value) pairs in insertion
\* order; coordinates are a list of numbers.
Pair(k, v) == <<k, v>>

GeometryInputs ==
    { <<Pair("type", <<"Polygon">>), Pair("coordinates", <<0, 0, 1, 0, 1, 1>>)>>,
      <<Pair("coordinates", <<0, 0, 1, 0, 1, 1>>), Pair("type", <<"Polygon">>)>>,
      <<Pair("type", <<"Polygon">>), Pair("coordinates", <<0, 0, 2, 0, 2, 2>>)>>,
      <<Pair("type", <<"Polygon">>), Pair("coordinates", <<1, 1, 1, 0, 0, 0>>)>>,
      <<Pair("type", <<"Point">>), Pair("coordinates", <<0, 0, 1, 0, 1, 1>>)>>,
      <<Pair("type", <<"Polygon">>), Pair("coordinates", <<0, 0, 1, 0, 1, 1>>),
        Pair("crs", <<"EPSG:4326">>)>>,
      <<Pair("crs", <<"EPSG:4326">>), Pair("coordinates", <<0, 0, 1, 0, 1, 1>>),
        Pair("type", <<"Polygon">>)>> }

\* the order of the key strings
KeyRank(k) == IF k = "coordinates" THEN 1 ELSE IF k = "crs" THEN 2 ELSE 3

\* json.dumps(d) without sort_keys: the pairs in insertion order
JsonDumpsUnsorted(d) == <<"json", d>>

\* json.dumps(d, sort_keys=True): the pairs in the order of their keys
JsonDumpsSorted(d) ==
    LET Place(i) == Cardinality({j \in 1..Len(d) : KeyRank(d[j][1]) < KeyRank(d[i][1])}) + 1
        At(n) == CHOOSE i \in 1..Len(d) : Place(i) = n
    IN  <<"json", [n \in 1..Len(d) |-> d[At(n)]]>>

generate_geometry_hash(geometry) == Md5(JsonDumpsSorted(geometry))

DeriveKey ==
    /\ \E g \in GeometryInputs :
          derived' = derived \cup {[geometry |-> g, hash |-> generate_geometry_hash(g)]}
    /\ UNCHANGED <<utcnow, historicalRows, modelRows, lastPut, lastGet, purge, lastForecast>>
    /\ UNCHANGED sideVars
    /\ UNCHANGED taskVars

NextKeys == DeriveKey

SpecKeys == Init /\ [][NextKeys]_vars

\* ====================================================== Open-Meteo client
\* weather_integration.py: the three functions that call Open-Meteo through
\* the same retry loop, one loop iteration per step.
MaxRetries == 3

Historical == "_get_historical_weather_single_request"

FetchFns == {"get_weather_data", "get_weather_forecast", Historical}

\* what the code after the loop finds in the response
Responses(fn) ==
    IF fn = Historical THEN {"hourly_data", "no_hourly_data", "malformed"}
    ELSE {"hourly_data", "malformed"}

NoCaller == "none"

RequestErrorMessage == "RequestException"

MalformedMessage == "malformed response"

MockNote == "Mock data - Open-Meteo API unavailable"

\* error = None (and error = '') add no 'error' key
_generate_mock_historical_data(error) ==
    IF error = "" THEN [data |-> "mock daily entries", note |-> MockNote]
    ELSE [data |-> "mock daily entries", note |-> MockNote, error |-> error]

_process_openmeteo_historical_data(response) ==
    IF response = "no_hourly_data"
    THEN _generate_mock_historical_data("No hourly data available")
    ELSE [data |-> "daily entries"]

\* the return value when requests.get succeeded on some attempt
AfterLoop(fn, response) ==
    IF fn = Historical
    THEN IF response = "malformed"
         THEN _generate_mock_historical_data(MalformedMessage)
         ELSE _process_openmeteo_historical_data(response)
    ELSE IF response = "malformed"
         THEN [error |-> MalformedMessage]
         ELSE [data |-> "weather"]

\* the return value when the last attempt raised requests.RequestException
AfterLastFailure(fn) ==
    IF fn = Historical
    THEN _generate_mock_historical_data("")
    ELSE [error |-> RequestErrorMessage]

NoResult == [pending |-> TRUE]

\* a wait of one second whatever the attempt
BackoffConstant(attempt) == 1

\* time.sleep(1 * (attempt + 1)), in seconds
Backoff(attempt) == 1 * (attempt + 1)

Fetching ==
    /\ fetch # IdleFetch
    /\ ~fetch.returned

\* the function is entered: attempt = 0, nothing requested or slept yet
StartFetch(fn, caller) ==
    /\ ~Fetching
    /\ fetch # IdleFetch => fetch.caller = NoCaller
    /\ fetch' = [fn |-> fn, caller |-> caller, attempt |-> 0, requests |-> 0, failures |-> 0,
                 sleeps |-> <<>>, returned |-> FALSE, result |-> NoResult]

CallWeatherFunction ==
    /\ \E fn \in FetchFns : StartFetch(fn, NoCaller)
    /\ UNCHANGED <<background_tasks, fetched>>
    /\ UNCHANGED taskVars
    /\ UNCHANGED <<utcnow, historicalRows, modelRows, lastPut, lastGet, purge, inflight>>
    /\ UNCHANGED mlVars
    /\ UNCHANGED engineVars

\* requests.get, raise_for_status and response.json() succeed: break, then
\* the code after the loop
AttemptSucceeds ==
    /\ Fetching
    /\ \E response \in Responses(fetch.fn) :
           fetch' = [fetch EXCEPT !.requests = @ + 1, !.returned = TRUE,
                                  !.result = AfterLoop(fetch.fn, response)]
    /\ UNCHANGED <<background_tasks, fetched>>
    /\ UNCHANGED taskVars
    /\ UNCHANGED <<utcnow, historicalRows, modelRows, lastPut, lastGet, purge, inflight>>
    /\ UNCHANGED mlVars
    /\ UNCHANGED engineVars

\* except requests.RequestException: give up on the last attempt, else
\* time.sleep(1 * (attempt + 1)) and the next iteration
AttemptFails ==
    /\ Fetching
    /\ IF fetch.attempt = MaxRetries - 1
       THEN fetch' = [fetch EXCEPT !.requests = @ + 1, !.failures = @ + 1,
                                   !.returned = TRUE,
                                   !.result = AfterLastFailure(fetch.fn)]
       ELSE fetch' = [fetch EXCEPT !.requests = @ + 1, !.failures = @ + 1,
                                   !.sleeps = Append(@, Backoff(fetch.attempt)),
                                   !.attempt = @ + 1]
    /\ UNCHANGED <<background_tasks, fetched>>
    /\ UNCHANGED taskVars
    /\ UNCHANGED <<utcnow, historicalRows, modelRows, lastPut, lastGet, purge, inflight>>
    /\ UNCHANGED mlVars
    /\ UNCHANGED engineVars

\* ================================================= app.py background workers
\* run_weather_forecast_async and run_ndvi_forecast_async write app.py's
\* background_tasks.  The task id is the caller's.
FlaskTaskIds == {"weather_1", "weather_2", "ndvi_1"}

MonthsInputs == {2}

\* a forecaster that reads the daily entries under 'data'
WeatherForecastOfData(historical_data, variable, months) ==
    [forecast_values |-> "values", forecast_dates |-> "dates"]

\* forecast_weather(historical_data, variable, months, location_key):
\* historical_weather['dates'] raises KeyError for a payload without that
\* key, and forecast_weather returns {'error': str(e)}
WeatherForecastOf(historical_data, variable, months) ==
    IF "dates" \notin DOMAIN historical_data
    THEN [error |-> "'dates'"]
    ELSE forecast_weather(historical_data.dates, variable, months, "lat_lon", FALSE).result

\* run_weather_forecast_async from the return of get_historical_weather on
WeatherTaskRecord(historical_data, months) ==
    IF "error" \in DOMAIN historical_data
    THEN FailedRecord("Failed to get historical weather data: " \o historical_data.error)
    ELSE LET temp_forecast == WeatherForecastOf(historical_data, "temperature", months)
             precip_forecast == WeatherForecastOf(historical_data, "precipitation", months)
         IN  IF "error" \in DOMAIN temp_forecast
             THEN FailedRecord("Failed to forecast temperature: " \o temp_forecast.error)
             ELSE IF "error" \in DOMAIN precip_forecast
             THEN FailedRecord("Failed to forecast precipitation: " \o precip_forecast.error)
             ELSE [status |-> "completed", result |-> "forecast_data", end_time |-> now]

\* the worker up to its call of get_historical_weather; the range is 365
\* days, so that is one _get_historical_weather_single_request
WeatherTaskStart ==
    \E task_id \in {"weather_1", "weather_2"} \ DOMAIN background_tasks :
        /\ StartFetch(Historical, task_id)
        /\ background_tasks' = DictSet(background_tasks, task_id, ProcessingRecord)
        /\ fetched' = DictSet(fetched, task_id, <<>>)
        /\ UNCHANGED taskVars
        /\ UNCHANGED <<utcnow, historicalRows, modelRows, lastPut, lastGet, purge, inflight>>
        /\ UNCHANGED mlVars
        /\ UNCHANGED engineVars

\* the worker from the return of get_historical_weather to its end
WeatherTaskEnd ==
    /\ fetch # IdleFetch
    /\ fetch.returned
    /\ fetch.caller # NoCaller
    /\ \E months \in MonthsInputs :
           background_tasks' = DictSet(background_tasks, fetch.caller,
                                       WeatherTaskRecord(fetch.result, months))
    /\ fetched' = DictSet(fetched, fetch.caller,
                          Append(fetched[fetch.caller],
                                 [requests |-> fetch.requests, payload |-> fetch.result]))
    /\ fetch' = IdleFetch
    /\ UNCHANGED taskVars
    /\ UNCHANGED <<utcnow, historicalRows, modelRows, lastPut, lastGet, purge, inflight>>
    /\ UNCHANGED mlVars
    /\ UNCHANGED engineVars

\* get_historical_ndvi(geometry, years=2): gee_processor's function takes
\* (geometry, start_date, end_date), so the call raises TypeError and the
\* worker's except branch stores the failure
NdviCallErrorMessage == "get_historical_ndvi() got an unexpected keyword argument 'years'"

NdviTask ==
    \E task_id \in {"ndvi_1"} \ DOMAIN background_tasks :
        /\ background_tasks' = DictSet(background_tasks, task_id,
                                       FailedRecord(NdviCallErrorMessage))
        /\ fetched' = DictSet(fetched, task_id, <<>>)
        /\ UNCHANGED fetch
        /\ UNCHANGED taskVars
        /\ UNCHANGED <<utcnow, historicalRows, modelRows, lastPut, lastGet, purge, inflight>>
        /\ UNCHANGED mlVars
        /\ UNCHANGED engineVars

NextWeather ==
    \/ CallWeatherFunction
    \/ AttemptSucceeds
    \/ AttemptFails
    \/ WeatherTaskStart
    \/ WeatherTaskEnd
    \/ NdviTask
    \/ Tick

SpecWeather == Init /\ [][NextWeather]_vars

\* ================================================ concurrent forecast calls
\* forecasting.py: forecast_ndvi called from several request threads.  A
\* call reads the model cache once (line 41) and writes it once (line 76);
\* everything between the two depends on the call's arguments and on what
\* the read returned.
RaceCalls ==
    {c \in NdviCalls : /\ c.periods \in {1, 2}
                       /\ c.cache_key # ""
                       /\ ~FitRaises(ToList(to_numeric(valid_data(c.series))))}

\* lines 34-41: the series is cleaned, the key derived, the cache read
ForecastBegins(thread) ==
    /\ ~inflight[thread].busy
    /\ \E c \in RaceCalls :
           inflight' = [inflight EXCEPT ![thread] =
                           [busy |-> TRUE, call |-> c,
                            out |-> forecast_ndvi(c.series, c.periods, c.cache_key, c.use_sarima)]]
    /\ UNCHANGED <<background_tasks, fetch, fetched>>
    /\ UNCHANGED mlVars
    /\ UNCHANGED <<utcnow, historicalRows, modelRows, lastPut, lastGet, purge>>
    /\ UNCHANGED engineVars
    /\ UNCHANGED taskVars

\* lines 43-96: the fit, the insert of the fitted model, the forecast
ForecastReturns(thread) ==
    /\ inflight[thread].busy
    /\ Called(inflight[thread].call, inflight[thread].out, FALSE)
    /\ inflight' = [inflight EXCEPT ![thread] = NotCalling]

NextRace ==
    \E thread \in Threads :
        \/ ForecastBegins(thread)
        \/ ForecastReturns(thread)

SpecRace == Init /\ [][NextRace]_vars

\* ============================================================ GEEForecaster
\* ndvi_forecast_ml.py: class GEEForecaster.  An attribute is TRUE when it
\* is not None.  The Earth Engine calls of a method either all succeed or
\* one of them raises; the attributes are assigned at the end of the method.
StageOrder ==
    <<"load_ndvi_data", "create_lagged_features", "load_meteorological_data",
      "load_topographic_data", "load_soil_data", "join_collections",
      "sample_training_data", "prepare_features_and_labels", "train_gee_random_forests">>

Methods ==
    {StageOrder[k] : k \in 1..Len(StageOrder)}
        \cup {"validate_models", "cross_validate_models", "forecast_vegetation_indices"}

GeeErrorMessage == "EEException"

\* a forecaster that is never taken for untrained
NeverMissing(f) == FALSE

ModelsMissing(f) == ~f.ndvi_classifier \/ ~f.savi_classifier \/ ~f.evi_classifier

\* the ValueError a method raises on entry; "" when it raises none
GuardError(method, f) ==
    CASE method = "create_lagged_features" /\ ~f.vi_collection
            -> "VI collection not loaded. Call load_ndvi_data() first."
      [] method = "join_collections"
           /\ ~(f.vi_lagged /\ f.meteo_collection /\ f.topo_image /\ f.soil_image)
            -> "All data collections must be loaded before joining."
      [] method = "sample_training_data" /\ ~f.combined_collection
            -> "Combined collection not created. Call join_collections() first."
      [] method = "prepare_features_and_labels" /\ ~f.samples
            -> "Training samples not created. Call sample_training_data() first."
      [] method = "train_gee_random_forests" /\ ~f.samples
            -> "Training samples not prepared. Call prepare_features_and_labels() first."
      [] method = "validate_models" /\ (ModelsMissing(f) \/ ~f.testing_samples)
            -> "Models not trained or test samples not available. Call train_gee_random_forests() first."
      [] method = "cross_validate_models" /\ ~f.samples
            -> "Training samples not prepared. Call prepare_features_and_labels() first."
      [] method = "forecast_vegetation_indices" /\ ModelsMissing(f)
            -> "Models not trained. Call train_gee_random_forests() first."
      [] OTHER -> ""

\* the attributes a method assigns before it returns
Assigned(method, f) ==
    CASE method = "load_ndvi_data" -> [f EXCEPT !.vi_collection = TRUE]
      [] method = "create_lagged_features" -> [f EXCEPT !.vi_lagged = TRUE]
      [] method = "load_meteorological_data" -> [f EXCEPT !.meteo_collection = TRUE]
      [] method = "load_topographic_data" -> [f EXCEPT !.topo_image = TRUE]
      [] method = "load_soil_data" -> [f EXCEPT !.soil_image = TRUE]
      [] method = "join_collections" -> [f EXCEPT !.combined_collection = TRUE]
      [] method = "sample_training_data" -> [f EXCEPT !.samples = TRUE]
      [] method = "train_gee_random_forests" ->
            [f EXCEPT !.ndvi_classifier = TRUE, !.savi_classifier = TRUE,
                      !.evi_classifier = TRUE, !.training_samples = TRUE,
                      !.testing_samples = TRUE]
      [] OTHER -> f

\* one method call: what it raises and the forecaster it leaves
Run(method, f, gee_ok) ==
    IF GuardError(method, f) # ""
    THEN [raised |-> TRUE, error |-> GuardError(method, f), f |-> f]
    ELSE IF ~gee_ok
    THEN [raised |-> TRUE, error |-> GeeErrorMessage, f |-> f]
    ELSE [raised |-> FALSE, error |-> "", f |-> Assigned(method, f)]

\* train_models, lines 829-854: the stages from the k-th on; fail_at is the
\* stage whose Earth Engine call raises, ran the number of stages completed
RECURSIVE RunStages(_, _, _)
RunStages(f, k, fail_at) ==
    IF k > Len(StageOrder)
    THEN [raised |-> FALSE, error |-> "", f |-> f, ran |-> k - 1]
    ELSE LET r == Run(StageOrder[k], f, k # fail_at)
         IN  IF r.raised
             THEN [raised |-> TRUE, error |-> r.error, f |-> r.f, ran |-> k - 1]
             ELSE RunStages(r.f, k + 1, fail_at)

\* lines 871-888: a failing validation is recorded inside the result
Attached(method, f, requested, gee_ok) ==
    IF ~requested THEN "absent"
    ELSE IF Run(method, f, gee_ok).raised THEN "error"
    ELSE "results"

\* fail_at = Len(StageOrder) + 1: the getInfo() of the result dict raises
train_models(f, a) ==
    LET r == RunStages(f, 1, a.fail_at)
    IN  IF r.raised
        THEN [result |-> [error |-> r.error], f |-> r.f, ran |-> r.ran]
        ELSE IF a.fail_at = Len(StageOrder) + 1
        THEN [result |-> [error |-> GeeErrorMessage], f |-> r.f, ran |-> r.ran]
        ELSE [result |-> [status |-> "success",
                          validation |-> Attached("validate_models", r.f,
                                                  a.include_validation, a.val_ok),
                          cross_validation |-> Attached("cross_validate_models", r.f,
                                                        a.include_cv, a.cv_ok)],
              f |-> r.f, ran |-> r.ran]

forecast(f, gee_ok) ==
    IF ModelsMissing(f)
    THEN [error |-> "Models not trained. Call train_models() first."]
    ELSE LET r == Run("forecast_vegetation_indices", f, gee_ok)
         IN  IF r.raised THEN [error |-> r.error]
             ELSE [status |-> "success", forecasts |-> "forecasts"]

TrainArgs ==
    [fail_at : 0..(Len(StageOrder) + 1), include_validation : BOOLEAN,
     include_cv : BOOLEAN, val_ok : BOOLEAN, cv_ok : BOOLEAN]

MlFrame ==
    /\ UNCHANGED ioVars
    /\ UNCHANGED taskVars
    /\ UNCHANGED <<utcnow, historicalRows, modelRows, lastPut, lastGet, purge>>
    /\ UNCHANGED engineVars

Construct ==
    /\ forecaster' = NewForecaster
    /\ lastCall' = [method |-> "__init__", before |-> forecaster, args |-> <<>>,
                    raised |-> FALSE, result |-> [status |-> "constructed"], ran |-> 0]
    /\ MlFrame

CallMethod ==
    /\ \E method \in Methods, gee_ok \in BOOLEAN :
          LET r == Run(method, forecaster, gee_ok)
          IN  /\ forecaster' = r.f
              /\ lastCall' = [method |-> method, before |-> forecaster, args |-> <<gee_ok>>,
                              raised |-> r.raised, result |-> [error |-> r.error], ran |-> 0]
    /\ MlFrame

CallTrainModels ==
    /\ \E a \in TrainArgs :
          LET r == train_models(forecaster, a)
          IN  /\ forecaster' = r.f
              /\ lastCall' = [method |-> "train_models", before |-> forecaster, args |-> a,
                              raised |-> FALSE, result |-> r.result, ran |-> r.ran]
    /\ MlFrame

CallForecast ==
    /\ \E gee_ok \in BOOLEAN :
          lastCall' = [method |-> "forecast", before |-> forecaster, args |-> <<gee_ok>>,
                       raised |-> FALSE, result |-> forecast(forecaster, gee_ok), ran |-> 0]
    /\ UNCHANGED forecaster
    /\ MlFrame

NextForecaster ==
    \/ Construct
    \/ CallMethod
    \/ CallTrainModels
    \/ CallForecast

SpecForecaster == Init /\ [][NextForecaster]_vars

\* ====================================================== historical routes
\* routes/historical.py: POST /historical/vis, POST /historical/evi and
\* GET /historical/weather/{lat}/{lon}.  Each looks its key up in the
\* historical-data cache, otherwise fetches, stores and answers.
HistoricalRoutes == {"vis", "evi", "weather"}

\* gee_processor.get_historical_vis / get_historical_evi: the series, the
\* series of a range without images, or mock values with the error
GeeResults ==
    { [dates |-> <<1, 2>>, values |-> <<5, 6>>],
      [dates |-> <<>>, values |-> <<>>],
      [dates |-> <<1, 2>>, values |-> <<9, 9>>, error |-> GeeErrorMessage,
       note |-> "Mock data due to error"] }

\* get_historical_weather for a range of at most 365 days
WeatherResults ==
    {AfterLoop(Historical, r) : r \in Responses(Historical)} \cup {AfterLastFailure(Historical)}

FetchResults(route) == IF route = "weather" THEN WeatherResults ELSE GeeResults

RouteKey(route) ==
    IF route = "weather"
    THEN [data_type |-> "weather", geometry_hash |-> "1_1_range", lat |-> <<1>>, lon |-> <<1>>,
          years |-> 1]
    ELSE [data_type |-> route, geometry_hash |-> "g1", lat |-> <<>>, lon |-> <<>>,
          years |-> IF route = "vis" THEN 1 ELSE 10]

\* what the route makes of the fetched dict before it stores it
Stored(route, historical_data) ==
    IF route = "vis"
    THEN IF "dates" \in DOMAIN historical_data
         THEN historical_data
         ELSE [error |-> "Failed to retrieve historical VI data", dates |-> <<>>, values |-> <<>>]
    ELSE IF route = "evi"
    THEN historical_data
    ELSE IF "error" \notin DOMAIN historical_data /\ "data" \in DOMAIN historical_data
         THEN [data |-> historical_data.data, metadata |-> "metadata"]
         ELSE [error |-> IF "error" \in DOMAIN historical_data THEN historical_data.error
                         ELSE "Failed to retrieve historical weather data",
               data |-> <<>>]

HistoricalRequest ==
    /\ \E route \in HistoricalRoutes :
          LET k == RouteKey(route)
              cached_data == get_cached_historical_data(k.data_type, k.geometry_hash,
                                                        k.lat, k.lon, k.years)
          IN  IF cached_data.found
              THEN /\ lastReply' = [endpoint |-> route, cached |-> TRUE,
                                    payload |-> cached_data.data]
                   /\ UNCHANGED historicalRows
              ELSE /\ RowCount < MaxRows
                   /\ \E fetched_data \in FetchResults(route) :
                         LET historical_data == <<"dict", Stored(route, fetched_data)>>
                         IN  /\ save_cached_historical_data(k.data_type, k.geometry_hash,
                                                            historical_data, k.lat, k.lon, k.years)
                             /\ lastReply' = [endpoint |-> route, cached |-> FALSE,
                                              payload |-> historical_data]
    /\ UNCHANGED <<now, forecastStore, tasksStore, modelsStore, jobs, loop>>
    /\ UNCHANGED <<utcnow, modelRows, lastPut, lastGet, purge>>
    /\ UNCHANGED engineVars
    /\ UNCHANGED sideVars

NextHistorical ==
    \/ HistoricalRequest
    \/ AdvanceClock

SpecHistorical == Init /\ [][NextHistorical]_vars

\* ================================================================= claims
Terminal == {"completed", "failed"}

FourStatuses == {"pending", "processing", "completed", "failed"}

HasStatus(rec, statuses) == "status" \in DOMAIN rec /\ rec.status \in statuses

VegJobs == {i \in 1..Len(jobs) : jobs[i].kind = "veg_forecast"}

\* C1: once the stored status of a task id is completed or failed, no later
\* step changes that task's record (status, result, error).
C1_TerminalRecordNeverChanges ==
    [][\A id \in DOMAIN forecastStore :
          HasStatus(forecastStore[id], Terminal)
              => (id \in DOMAIN forecastStore' /\ forecastStore'[id] = forecastStore[id])]_vars

\* C2: every accepted submission whose job has returned is in exactly one
\* terminal state that a status endpoint reports for the returned task id,
\* for forecast and training submissions alike.
C2_FinishedJobIsObservablyTerminal ==
    \A i \in 1..Len(jobs) :
        jobs[i].pc = "done" =>
            \E r \in {get_forecast_status(forecastStore, jobs[i].task_id),
                      get_task_status(tasksStore, jobs[i].task_id)} :
                r.code = 200 /\ r.status \in Terminal

\* C3: the task ids returned by accepted submissions are pairwise distinct.
C3_TaskIdsDistinct ==
    \A i, j \in 1..Len(jobs) : i # j => jobs[i].task_id # jobs[j].task_id

\* C4: from the moment submit has returned a task id, the status endpoint
\* answers for it with a snapshot, never with not-found.
C4_RecordExistsOnceSubmitted ==
    \A i \in VegJobs : get_forecast_status(forecastStore, jobs[i].task_id).code # 404

\* C5: for every record a worker leaves in a task table, the poll response
\* has one of the four statuses, an error when failed, a result when completed.
WellFormedPoll(r) ==
    /\ r.status \in FourStatuses
    /\ r.status = "failed" => (r.has_error /\ r.detail # "")
    /\ r.status = "completed" => r.has_result

C5_PollResponsesWellFormed ==
    /\ \A id \in DOMAIN forecastStore : WellFormedPoll(get_forecast_status(forecastStore, id))
    /\ \A id \in DOMAIN modelsStore : WellFormedPoll(get_task_status(modelsStore, id))

\* C6: the status endpoint never raises for a task present in the table; a
\* terminal record with an end time and no start time yields a successful
\* response with end_time, and duration is reported only when both times are there.
C6_StatusNeverRaises ==
    \A id \in DOMAIN forecastStore :
        LET r == get_forecast_status(forecastStore, id) IN
        /\ r.code = 200
        /\ r.task_id = id
        /\ r.status \in Terminal => (r.times.has_end /\ (r.has_result \/ r.has_error))
        /\ r.times.has_duration <=> (r.times.has_start /\ r.times.has_end)

\* C7: when a call inside a vegetation-forecast job fails (returns an error or
\* raises), the step that ends the job leaves the task failed with the error
\* message and an end time, frees the event loop, sends nothing to the
\* submitter and changes no other task's record.
JobFailsInStep(i) ==
    /\ jobs[i].pc \in {"initialize_gee", "train_models", "forecast"}
    /\ jobs'[i].pc = "done"

ValidPeriodList(xs) == Len(xs) > 0 /\ \A k \in 1..Len(xs) : xs[k] > 0 /\ xs[k] <= MaxPeriod

C8_InvalidPeriodsRejected ==
    (lastReply.endpoint = "forecast_vegetation" /\ lastReply.status = "accepted")
        => ValidPeriodList(lastReply.periods)

\* C9: a status request for a task id that was never issued is answered
\* not-found and leaves the task tables unchanged.
IsPoll(r) == r.endpoint \in {"forecast_status", "task"}

C9_UnknownIdNotFound ==
    [][(IsPoll(lastReply') /\ lastReply' # lastReply /\ lastReply'.task_id \notin IssuedIds)
          => (lastReply'.code = 404 /\ UNCHANGED <<forecastStore, tasksStore, modelsStore, jobs>>)]_vars

\* a never-issued id was asked about while the table held records
C9_Witness ==
    /\ lastReply.endpoint = "forecast_status"
    /\ lastReply.task_id \notin IssuedIds
    /\ lastReply.code = 404
    /\ DOMAIN forecastStore # {}

\* C10: after a put, a get with the same domain, key and dims before the
\* time-to-live elapses returns found with exactly the payload that was put,
\* for the historical-data cache and for the model cache.
C10_CacheRoundTrip ==
    /\ (lastPut.table = "historical" /\ utcnow - lastPut.at < HistoricalTTLDays) =>
          LET k == lastPut.key
              got == get_cached_historical_data(k.data_type, k.geometry_hash, k.lat, k.lon, k.years)
          IN  got.found /\ got.data = lastPut.payload
    /\ (lastPut.table = "model" /\ utcnow - lastPut.at < ModelTTLDays) =>
          LET got == get_cached_arima_model(lastPut.key)
          IN  got.found /\ <<got.model, got.model_info>> = lastPut.payload

\* C11: get returns an entry exactly while now - created_at is below the
\* time-to-live of its domain (30 days for historical data, 7 days for
\* fitted models): an entry written at t0 is found just before t0 + T and
\* not found from t0 + T on, purged or not.
C11_TTLBoundary ==
    /\ \A k \in HistoricalKeys :
          get_cached_historical_data(k.data_type, k.geometry_hash, k.lat, k.lon, k.years).found
          <=> \E i \in 1..Len(historicalRows) :
                 /\ historicalRows[i].data_type = k.data_type
                 /\ historicalRows[i].geometry_hash = k.geometry_hash
                 /\ historicalRows[i].years = k.years
                 /\ utcnow - historicalRows[i].created_at < HistoricalTTLDays
    /\ \A k \in ModelKeys :
          get_cached_arima_model(k).found
          <=> \E i \in 1..Len(modelRows) :
                 /\ modelRows[i].model_key = k
                 /\ utcnow - modelRows[i].created_at < ModelTTLDays

\* the result of the same call made without a cache key
WithoutCacheKey(c) ==
    IF c.fn = "forecast_ndvi"
    THEN forecast_ndvi(c.series, c.periods, "", c.use_sarima).result
    ELSE forecast_weather(c.series, c.variable, c.periods, "", c.use_sarima).result

Succeeded(f) == f.made /\ "error" \notin DOMAIN f.result

\* C12: a call whose model lookup or model store failed returns what the
\* same call returns without a cache key, with cached = false when it is a
\* forecast: the failure of the cache is never the error of the call.
C12_CacheFailureNonFatal ==
    (/\ lastForecast.made
     /\ lastForecast.looked_up
     /\ OrderRaises("descending") \/ lastForecast.store_failed)
    => /\ lastForecast.result = WithoutCacheKey(lastForecast.call)
       /\ Succeeded(lastForecast) => ~lastForecast.result.cached

\* a forecast was returned by a call whose lookup and whose store both failed
C12_Witness ==
    /\ Succeeded(lastForecast)
    /\ lastForecast.looked_up
    /\ lastForecast.store_failed
    /\ OrderRaises("descending")

\* C13: of two consecutive calls with the same series, cache key, mode and
\* periods, made on the same day with a cache that stored the model of the
\* first, the first reports cached = false, the second cached = true, and
\* both return the same forecast values and forecast dates.
C13_CacheReuse ==
    [][(/\ lastForecast.made
        /\ lastForecast'.made
        /\ lastForecast'.call = lastForecast.call
        /\ lastForecast.stored
        /\ ~lastForecast'.store_failed
        /\ utcnow' = utcnow
        /\ Succeeded(lastForecast)
        /\ Succeeded(lastForecast'))
       => /\ ~lastForecast.result.cached
          /\ lastForecast'.result.cached
          /\ lastForecast'.result.forecast_values = lastForecast.result.forecast_values
          /\ lastForecast'.result.forecast_dates = lastForecast.result.forecast_dates]_vars

\* the valid numbers of a series, the list a model is fitted on
CleanValues(series) == ToList(to_numeric(valid_data(series)))

RawValues(series) == [i \in 1..Len(series) |-> series[i].value]

VariableOf(c) == IF c.variable = "precipitation" THEN "rainfall" ELSE c.variable

SameContent(g, h) == {g[i] : i \in 1..Len(g)} = {h[i] : i \in 1..Len(h)}

\* C15: the geometry key is a function of the geometry's content: whatever
\* was derived before and in whatever order, two geometries with the same
\* content (their keys in any order) have the same key and two geometries
\* with different content have different keys.
C15_GeometryKeyDeterministic ==
    \A a \in derived, b \in derived :
       SameContent(a.geometry, b.geometry) <=> a.hash = b.hash

\* keys were derived for one geometry written with two key orders and for a
\* geometry with other coordinates
C15_Witness ==
    \E a \in derived, b \in derived, c \in derived :
       /\ a.geometry # b.geometry
       /\ SameContent(a.geometry, b.geometry)
       /\ ~SameContent(a.geometry, c.geometry)

\* C16: every forecast returned for periods = P has P forecast dates, P
\* forecast values, P lower and P upper confidence bounds, for a freshly
\* fitted model and for a model taken from the cache.
C16_ForecastShape ==
    Succeeded(lastForecast) =>
       LET r == lastForecast.result
           P == lastForecast.call.periods
       IN  /\ Len(r.forecast_dates) = P
           /\ Len(r.forecast_values) = P
           /\ Len(r.confidence_intervals.lower) = P
           /\ Len(r.confidence_intervals.upper) = P

\* a forecast for more than one period was returned from a freshly fitted
\* model
C16_Witness ==
    /\ Succeeded(lastForecast)
    /\ lastForecast.call.periods > 1
    /\ lastForecast.fitted

\* the month-start dates of a series
MonthlySeries(series) == \A i \in 1..Len(series) : series[i].date.day = 1

LastDate(series) == valid_data(series)[Len(valid_data(series))].date

\* C17: for a monthly series (dated on the first of the month) and
\* periods = P the forecast dates are the first days of the P months that
\* follow the month of the last input date, one after the other.
C17_ForecastDatesMonthStarts ==
    (Succeeded(lastForecast) /\ MonthlySeries(lastForecast.call.series)) =>
       \A k \in 1..lastForecast.call.periods :
          lastForecast.result.forecast_dates[k]
             = Date(LastDate(lastForecast.call.series).ym + k, 1)

\* the numbers among the entries of a series
ValidNumbers(series) ==
    LET nums == SelectSeq(series, LAMBDA e : e.value.t = "num") IN
    [i \in 1..Len(nums) |-> nums[i].value.n]

\* C18: a call whose series has no valid number returns the no-valid-data
\* error without looking a model up, fitting one or storing one; in every
\* other call the model is fitted on the valid numbers only.
C18_NoValidData ==
    /\ (lastForecast.made /\ ValidNumbers(lastForecast.call.series) = <<>>) =>
          /\ lastForecast.result
               = [error |-> NoValidDataMessage(IF lastForecast.call.fn = "forecast_ndvi"
                                               THEN "NDVI" ELSE VariableOf(lastForecast.call))]
          /\ ~lastForecast.looked_up
          /\ ~lastForecast.fitted
          /\ ~lastForecast.stored
    /\ Succeeded(lastForecast) =>
          \A k \in 1..lastForecast.call.periods :
             lastForecast.result.forecast_values[k].mean_of.trained_on
                = ValidNumbers(lastForecast.call.series)

\* a call with a cache key and a series of None, NaN and text has returned
C18_Witness ==
    /\ lastForecast.made
    /\ lastForecast.call.cache_key # ""
    /\ Len(lastForecast.call.series) > 0
    /\ ValidNumbers(lastForecast.call.series) = <<>>

\* C19: a call with periods <= 0 returns the invalid-periods error, the
\* error get_forecast raises for an empty prediction range, whatever the
\* series and whatever the cache holds, and never a forecast.
C19_NonPositivePeriodsRejected ==
    (lastForecast.made /\ lastForecast.call.periods <= 0) =>
       lastForecast.result = [error |-> PredictionErrorMessage]

\* a row of a cache table that a get would still return
Live(r, ttl) == utcnow - r.created_at < ttl

Rows(table) == {table[i] : i \in 1..Len(table)}

IsPrefix(a, b) == Len(a) <= Len(b) /\ SubSeq(b, 1, Len(a)) = a

\* C20: whatever is interleaved with the two deletes of a purge, no step
\* removes a row younger than the time-to-live of its table (30 days for
\* historical data, 7 days for models), every row of a table after a step
\* is a whole row that was there before or the row just inserted, and a
\* delete leaves no row older than the time-to-live in its table.
C20_PurgeRemovesOnlyExpired ==
    [][/\ IsPrefix(SelectSeq(historicalRows, LAMBDA r : Live(r, HistoricalTTLDays)),
                   SelectSeq(historicalRows', LAMBDA r : Live(r, HistoricalTTLDays)))
       /\ IsPrefix(SelectSeq(modelRows, LAMBDA r : Live(r, ModelTTLDays)),
                   SelectSeq(modelRows', LAMBDA r : Live(r, ModelTTLDays)))
       /\ Rows(historicalRows') \subseteq
             Rows(historicalRows) \cup
             (IF Len(historicalRows') > 0 THEN {historicalRows'[Len(historicalRows')]} ELSE {})
       /\ Rows(modelRows') \subseteq
             Rows(modelRows) \cup
             (IF Len(modelRows') > 0 THEN {modelRows'[Len(modelRows')]} ELSE {})
       /\ (purge = 0 /\ purge' = 1) =>
             \A r \in Rows(historicalRows') : utcnow - r.created_at <= HistoricalTTLDays
       /\ (purge = 1 /\ purge' = 0) =>
             \A r \in Rows(modelRows') : utcnow - r.created_at <= ModelTTLDays]_vars

\* a purge has run to its end: it removed the model put more than 7 days
\* ago and kept a historical entry younger than 30 days
C20_Witness ==
    /\ purge = 0
    /\ lastPut.table = "model"
    /\ utcnow - lastPut.at > ModelTTLDays
    /\ modelRows = <<>>
    /\ Len(historicalRows) > 0
    /\ \A r \in Rows(historicalRows) : Live(r, HistoricalTTLDays)


\* a get_historical_weather call that got no data from Open-Meteo: every
\* such return carries the mock entries
Substitute(call) == call.payload.data = "mock daily entries"

Ended(task_id) ==
    /\ task_id \in DOMAIN background_tasks
    /\ background_tasks[task_id].status # "processing"

Running(i) ==
    /\ jobs[i].kind = "veg_forecast"
    /\ jobs[i].task_id \in DOMAIN forecastStore
    /\ "status" \in DOMAIN forecastStore[jobs[i].task_id]
    /\ forecastStore[jobs[i].task_id].status = "processing"

\* C22: while a job is running, with its task in processing, a status poll
\* can be served: the handler of GET /forecast/status can run and answer
\* before the job ends.
C22_PollsServedWhileRunning ==
    \A i \in 1..Len(jobs) : Running(i) => ENABLED PollForecastStatus

\* the key a call stores its model under: cache key plus data fingerprint
StoreKey(c) ==
    LET values == CleanValues(c.series)
        model_type == IF c.use_sarima THEN "sarima" ELSE "arima"
    IN  IF c.fn = "forecast_ndvi"
        THEN NdviModelKey(model_type, c.cache_key, DataHash(values))
        ELSE WeatherModelKey(VariableOf(c), model_type, c.cache_key, DataHash(values))

\* the model cache holds an entry for the call's key within its TTL
EntryPresent(c) ==
    \E i \in 1..Len(modelRows) :
        /\ modelRows[i].model_key = StoreKey(c)
        /\ Live(modelRows[i], ModelTTLDays)

\* C23: a forecast call writes the model cache exactly when it fitted a new
\* model and was given a cache key (the insert itself not failing): a keyed
\* call that finds its entry is served from the cache and writes nothing, a
\* call without cache key neither looks up nor writes, and a keyed call that
\* finds no entry within the TTL and succeeds has fitted a model, reports
\* cached = false and appends one row under the cache key plus fingerprint.
C23_WrittenWhenFittedAndKeyed ==
    [][(lastForecast'.made /\ ~lastForecast'.store_failed) =>
          LET f == lastForecast'
              keyed == f.call.cache_key # ""
          IN  /\ (modelRows' # modelRows) <=> (f.fitted /\ keyed)
              /\ (keyed /\ EntryPresent(f.call)) => modelRows' = modelRows
              /\ ~keyed => (~f.looked_up /\ modelRows' = modelRows)
              /\ (keyed /\ ~EntryPresent(f.call) /\ Succeeded(f)) =>
                     /\ f.fitted
                     /\ ~f.result.cached
                     /\ Len(modelRows') = Len(modelRows) + 1
                     /\ SubSeq(modelRows', 1, Len(modelRows)) = modelRows
                     /\ modelRows'[Len(modelRows')].model_key = StoreKey(f.call)
                     /\ modelRows'[Len(modelRows')].created_at = utcnow]_vars


\* the positions of the rows put under a key, oldest first
PutsUnder(k) ==
    {i \in 1..Len(historicalRows) :
        /\ historicalRows[i].data_type = k.data_type
        /\ historicalRows[i].geometry_hash = k.geometry_hash
        /\ historicalRows[i].years = k.years
        /\ (k.lat # <<>> /\ k.lon # <<>>) =>
               (historicalRows[i].latitude = k.lat /\ historicalRows[i].longitude = k.lon)}

ModelPutsUnder(k) == {i \in 1..Len(modelRows) : modelRows[i].model_key = k}

Last(S) == CHOOSE i \in S : \A j \in S : j <= i

\* C24: after two puts under the same (domain, key, dims), a get made while
\* the second put is within its time-to-live returns the payload of the
\* second put with the time of the second put, never that of the first.
C24_PutOverwrites ==
    /\ \A k \in HistoricalKeys :
          LET puts == PutsUnder(k)
              got == get_cached_historical_data(k.data_type, k.geometry_hash, k.lat, k.lon, k.years)
          IN  (Cardinality(puts) >= 2 /\ Live(historicalRows[Last(puts)], HistoricalTTLDays)) =>
                 /\ got.found
                 /\ got.data = JsonLoads(historicalRows[Last(puts)].data)
                 /\ got.created_at = historicalRows[Last(puts)].created_at
    /\ \A k \in ModelKeys :
          LET puts == ModelPutsUnder(k)
              got == get_cached_arima_model(k)
          IN  (Cardinality(puts) >= 2 /\ Live(modelRows[Last(puts)], ModelTTLDays)) =>
                 /\ got.found
                 /\ got.model = PickleLoads(B64Decode(modelRows[Last(puts)].model_data))
                 /\ got.created_at = modelRows[Last(puts)].created_at

\* C25: when calls for the same series and cache key overlap and each
\* misses, each returns a complete forecast with cached = false and adds its
\* model in one write that leaves the other rows alone; a call that starts
\* once such a model is stored is served from the cache, with a model fitted
\* on that same series.
C25_RaceThenCacheHit ==
    [][\A thread \in Threads :
          /\ (inflight[thread].busy /\ ~inflight'[thread].busy
                /\ ~inflight[thread].out.result.cached) =>
                 /\ Succeeded(lastForecast')
                 /\ ~lastForecast'.result.cached
                 /\ Len(lastForecast'.result.forecast_values) = lastForecast'.call.periods
                 /\ Len(modelRows') = Len(modelRows) + 1
                 /\ SubSeq(modelRows', 1, Len(modelRows)) = modelRows
          /\ (~inflight[thread].busy /\ inflight'[thread].busy
                /\ EntryPresent(inflight'[thread].call)) =>
                 /\ inflight'[thread].out.result.cached
                 /\ ~inflight'[thread].out.fitted
                 /\ inflight'[thread].out.model_fit.trained_on
                       = CleanValues(inflight'[thread].call.series)]_vars

\* the errors run_ml_forecast_background stores when training or
\* forecasting with the ML models fails
MLFailures == {"Model training failed: No training data",
               "Forecasting failed: Models not trained"}

\* every job submitted under this id was accepted with use_fallback = true
WithFallback(task_id) ==
    \A i \in 1..Len(jobs) :
        jobs[i].task_id = task_id => (jobs[i].kind = "veg_forecast" /\ jobs[i].use_fallback)

\* C26: a vegetation-forecast task accepted with use_fallback = true does
\* not end failed because of an ML failure alone: when training or
\* forecasting fails the statistical forecast runs, and the task completes
\* with fallback_used = true or fails with both error messages.
C26_FallbackProtocol ==
    \A task_id \in DOMAIN forecastStore :
        LET task == forecastStore[task_id] IN
        (WithFallback(task_id) /\ task.status = "failed") => task.error \notin MLFailures

\* the data a stage needs from the stages before it
HasPrerequisite(method, f) ==
    CASE method = "create_lagged_features" -> f.vi_collection
      [] method = "join_collections" ->
            f.vi_lagged /\ f.meteo_collection /\ f.topo_image /\ f.soil_image
      [] method = "sample_training_data" -> f.combined_collection
      [] method = "prepare_features_and_labels" -> f.samples
      [] method = "train_gee_random_forests" -> f.samples
      [] OTHER -> TRUE

ModelsNotTrained ==
    {"Models not trained. Call train_models() first.",
     "Models not trained. Call train_gee_random_forests() first."}

Complete(f) == \A a \in DOMAIN f : f[a]

\* C27: the forecaster enforces its stage order.  forecast() on a forecaster
\* whose three classifiers are not all trained returns a "Models not
\* trained" error and no forecasts; a stage called without the data of its
\* prerequisite stage raises and changes nothing; train_models() returns
\* success only when all nine stages ran in order, and then whether or not
\* validation or cross-validation failed.
C27_StageOrderEnforced ==
    /\ lastCall.method = "forecast" =>
          LET f == lastCall.before
          IN  ~(f.ndvi_classifier /\ f.savi_classifier /\ f.evi_classifier) =>
                 /\ DOMAIN lastCall.result = {"error"}
                 /\ lastCall.result.error \in ModelsNotTrained
    /\ (lastCall.method \in Methods /\ ~HasPrerequisite(lastCall.method, lastCall.before)) =>
          /\ lastCall.raised
          /\ lastCall.result.error # GeeErrorMessage
          /\ forecaster = lastCall.before
    /\ lastCall.method = "train_models" =>
          /\ "status" \in DOMAIN lastCall.result =>
                /\ lastCall.result.status = "success"
                /\ lastCall.ran = Len(StageOrder)
                /\ Complete(forecaster)
          /\ lastCall.args.fail_at = 0 =>
                /\ "status" \in DOMAIN lastCall.result
                /\ (lastCall.args.include_validation /\ ~lastCall.args.val_ok) =>
                       lastCall.result.validation = "error"

\* train_models succeeded on a new forecaster although validation failed
C27_Witness ==
    /\ lastCall.method = "train_models"
    /\ lastCall.before = NewForecaster
    /\ "status" \in DOMAIN lastCall.result
    /\ lastCall.result.validation = "error"
    /\ Complete(forecaster)

\* C28: the retry loop of a weather fetch makes at most 3 requests and
\* stops at the first that succeeds; it waits 1 s after the first failure
\* and 2 s after the second and does not wait after the third; after three
\* failures get_weather_data and get_weather_forecast return an error value
\* and the historical single-range fetch returns its fallback payload.
C28_RetryLoopBounded ==
    fetch # IdleFetch =>
       /\ fetch.requests <= MaxRetries
       /\ fetch.failures <= MaxRetries
       /\ fetch.sleeps = [k \in 1..(IF fetch.failures < MaxRetries THEN fetch.failures
                                    ELSE MaxRetries - 1) |-> k]
       /\ ~fetch.returned => (fetch.requests = fetch.failures /\ fetch.failures < MaxRetries)
       /\ (fetch.returned /\ fetch.failures < MaxRetries) =>
              fetch.requests = fetch.failures + 1
       /\ (fetch.returned /\ fetch.failures = MaxRetries) =>
              /\ fetch.requests = MaxRetries
              /\ IF fetch.fn = Historical
                 THEN /\ "data" \in DOMAIN fetch.result
                      /\ fetch.result.note = MockNote
                 ELSE DOMAIN fetch.result = {"error"}

\* get_weather_data gave up after three failed requests and two waits
C28_Witness ==
    /\ fetch # IdleFetch
    /\ fetch.fn = "get_weather_data"
    /\ fetch.returned
    /\ fetch.failures = MaxRetries
    /\ fetch.sleeps = <<1, 2>>
    /\ "error" \in DOMAIN fetch.result

\* C29: a forecast call that returns an error leaves the model cache as it
\* found it: no row is stored by a call that ends with the no-valid-data
\* error, a fit error, the error for invalid periods or any other error.
C29_ErrorLeavesCacheUnchanged ==
    [][(lastForecast'.made /\ "error" \in DOMAIN lastForecast'.result)
          => modelRows' = modelRows]_vars

\* a payload that is a series fetched from the provider: no error, no
\* substitute values, not empty
FetchedSeries(payload) ==
    /\ "error" \notin DOMAIN payload
    /\ "dates" \in DOMAIN payload => payload.dates # <<>>
    /\ "data" \in DOMAIN payload => payload.data = "daily entries"

\* C30: the historical-data cache holds successfully fetched series only:
\* a request whose fetch failed or returned no data writes no entry, and no
\* answer with cached = true carries an error or empty payload.
C30_CacheHoldsFetchedSeriesOnly ==
    /\ \A i \in 1..Len(historicalRows) : FetchedSeries(historicalRows[i].data[2])
    /\ (lastReply.endpoint \in HistoricalRoutes /\ lastReply.cached) =>
           FetchedSeries(lastReply.payload[2])
====
